---- MODULE Spec2Model ----
(***************************************************************************)
(* Model of fritzer: the libfritzer session handling (src/src/lib.rs,      *)
(* src/src/command.rs, src/src/connection.rs) and the command line run     *)
(* that drives it (src/src/main.rs).                                       *)
(*                                                                         *)
(* Text that the code inspects (the challenge) is a sequence of one        *)
(* character strings; text that the code only compares or copies (sid,     *)
(* username, password) is a TLA+ string.  Option<T> is a sequence of       *)
(* length 0 (None) or 1 (Some).                                            *)
(***************************************************************************)
EXTENDS Integers, Sequences, FiniteSets, TLC

----------------------------------------------------------------------------
(* Option<T> *)

None == <<>>

Some(v) == <<v>>

IsSome(o) == Len(o) = 1

IsNone(o) == Len(o) = 0

Unwrap(o) == o[1]

----------------------------------------------------------------------------
(* Bounds of the model *)

\* LibSpec: a call is made only while fewer requests than this were sent
MaxLibRequests == 3

\* DeriveSpec: the largest number of '$'-delimited fields of a challenge
MaxChallengeFields == 6

----------------------------------------------------------------------------
(* Program constants *)

INVALID_SESSION == "0000000000000000"

----------------------------------------------------------------------------
(* Fritzbox::get_challenge_response and the conversions it uses *)

Digits == <<"0", "1", "2", "3", "4", "5", "6", "7", "8", "9">>

HexLower == <<"0", "1", "2", "3", "4", "5", "6", "7", "8", "9",
              "a", "b", "c", "d", "e", "f">>

HexUpper == <<"0", "1", "2", "3", "4", "5", "6", "7", "8", "9",
              "A", "B", "C", "D", "E", "F">>

IndexOf(c, table) ==
    IF \E i \in 1..Len(table) : table[i] = c
    THEN (CHOOSE i \in 1..Len(table) : table[i] = c) - 1
    ELSE -1

\* value of one hex digit, -1 when the character is not a hex digit
HexVal(c) ==
    IF IndexOf(c, HexLower) >= 0 THEN IndexOf(c, HexLower) ELSE IndexOf(c, HexUpper)

\* str::split(sep): the fields between the separators; never empty
RECURSIVE SplitFrom(_, _, _, _, _)
SplitFrom(s, sep, i, acc, cur) ==
    IF i > Len(s) THEN Append(acc, cur)
    ELSE IF s[i] = sep THEN SplitFrom(s, sep, i + 1, Append(acc, cur), <<>>)
    ELSE SplitFrom(s, sep, i + 1, acc, Append(cur, s[i]))

Split(s, sep) == SplitFrom(s, sep, 1, <<>>, <<>>)

\* hex::decode: Some(bytes), or None for an odd length or a non-hex character
HexDecode(s) ==
    IF Len(s) % 2 # 0 \/ \E i \in 1..Len(s) : HexVal(s[i]) < 0
    THEN None
    ELSE Some([k \in 1..(Len(s) \div 2) |-> 16 * HexVal(s[2 * k - 1]) + HexVal(s[2 * k])])

\* u32::MAX, 4294967295, in decimal digits: a u32 is kept as its decimal
\* digits without leading zeros, which the checker's integers cannot hold
U32MaxDigits == <<"4", "2", "9", "4", "9", "6", "7", "2", "9", "5">>

RECURSIVE StripLeadingZeros(_)
StripLeadingZeros(s) ==
    IF Len(s) > 1 /\ s[1] = "0" THEN StripLeadingZeros(Tail(s)) ELSE s

\* a > b for two digit sequences without leading zeros
DigitsGreater(a, b) ==
    \/ Len(a) > Len(b)
    \/ /\ Len(a) = Len(b)
       /\ \E i \in 1..Len(a) :
            /\ IndexOf(a[i], Digits) > IndexOf(b[i], Digits)
            /\ \A j \in 1..(i - 1) : a[j] = b[j]

\* str::parse::<u32>: Some(n), or None for an empty field, a character that
\* is not a digit (one leading '+' is accepted) or a value above u32::MAX
ParseU32(s) ==
    LET body == IF Len(s) > 0 /\ s[1] = "+" THEN Tail(s) ELSE s
    IN  IF Len(body) = 0 \/ \E i \in 1..Len(body) : IndexOf(body[i], Digits) < 0
        THEN None
        ELSE IF DigitsGreater(StripLeadingZeros(body), U32MaxDigits) THEN None
        ELSE Some(StripLeadingZeros(body))

\* NonZeroU32::new
NonZeroU32(n) == IF n = <<"0">> THEN None ELSE Some(n)

\* str::as_bytes of the password: the password's UTF-8 bytes
AsBytes(password) == [utf8 |-> password]

\* ring::pbkdf2::derive with PBKDF2_HMAC_SHA256 into a 32 byte buffer, as a
\* reference operator: the digest is determined by exactly these arguments
Pbkdf2(iterations, salt, secret) ==
    [iterations |-> iterations, salt |-> salt, secret |-> secret]

\* hex::encode of a digest: its lowercase hex text, kept as one symbol
HexEncode(digest) == <<[hex |-> digest]>>

\* the places where get_challenge_response unwraps or indexes: it panics
\* when one of them fails
ChallengePanics(challenge) ==
    LET challenges == Split(challenge, "$")
    IN  \/ Len(challenges) < 5
        \/ IsNone(HexDecode(challenges[3]))
        \/ IsNone(HexDecode(challenges[5]))
        \/ IsNone(ParseU32(challenges[2]))
        \/ IsNone(NonZeroU32(Unwrap(ParseU32(challenges[2]))))
        \/ IsNone(ParseU32(challenges[4]))
        \/ IsNone(NonZeroU32(Unwrap(ParseU32(challenges[4]))))

\* get_challenge_response that keys round 2 with the hex text of hash1
get_challenge_response_hex_secret(challenge, password) ==
    LET challenges == Split(challenge, "$")
        salt1 == Unwrap(HexDecode(challenges[3]))
        salt2 == Unwrap(HexDecode(challenges[5]))
        hash1 == Pbkdf2(Unwrap(NonZeroU32(Unwrap(ParseU32(challenges[2])))),
                        salt1, AsBytes(password))
        hash2 == Pbkdf2(Unwrap(NonZeroU32(Unwrap(ParseU32(challenges[4])))),
                        salt2, HexEncode(hash1))
    IN  challenges[5] \o <<"%", "2", "4">> \o HexEncode(hash2)

get_challenge_response(challenge, password) ==
    LET challenges == Split(challenge, "$")
        salt1 == Unwrap(HexDecode(challenges[3]))
        salt2 == Unwrap(HexDecode(challenges[5]))
        hash1 == Pbkdf2(Unwrap(NonZeroU32(Unwrap(ParseU32(challenges[2])))),
                        salt1, AsBytes(password))
        hash2 == Pbkdf2(Unwrap(NonZeroU32(Unwrap(ParseU32(challenges[4])))),
                        salt2, hash1)
    IN  challenges[5] \o <<"%", "2", "4">> \o HexEncode(hash2)

----------------------------------------------------------------------------
(* Values the environment supplies *)

ValidSid1 == "1111111111111111"

ValidSid2 == "2222222222222222"

Sids == {INVALID_SESSION, ValidSid1, ValidSid2}

\* two well-formed challenges and one with too few fields
ChallengeA == <<"2", "$", "5", "$", "a", "b", "$", "3", "$", "c", "d">>

ChallengeB == <<"2", "$", "7", "$", "0", "1", "$", "2", "$", "E", "f">>

ChallengeShort == <<"2", "$", "5", "$", "a", "b">>

User(name, last) == [username |-> name, last |-> last]

UserLists ==
    { <<User("alice", Some(1))>>,
      <<User("bob", None), User("dave", Some(1)), User("alice", Some(1))>>,
      <<User("bob", Some(0))>> }

\* connection::SessionInfo
SessionInfo(sid, challenge, users) ==
    [sid |-> sid, challenge |-> challenge, users |-> users]

\* the documents the login endpoint may answer with: every sid; with the
\* sentinel sid, every well-formed challenge with every user list; and the
\* challenge with too few fields
SessionInfos ==
    { SessionInfo(s, ChallengeA, <<>>) : s \in Sids }
        \cup { SessionInfo(INVALID_SESSION, c, u) :
                 c \in {ChallengeA, ChallengeB}, u \in UserLists }
        \cup { SessionInfo(INVALID_SESSION, ChallengeShort, <<User("alice", Some(1))>>) }

\* what one HTTP exchange with the box gives back: a transport error, a body
\* that parses as a SessionInfo document, or a body that does not
HttpReplies ==
    { [kind |-> "error"], [kind |-> "garbled"] }
        \cup { [kind |-> "body", info |-> r] : r \in SessionInfos }

Passwords == {"pw1", "pw2"}

\* contents the sid file may have before the run
StoredTokens == {ValidSid1, INVALID_SESSION}

\* command line: --username, --password, the subcommand, and whether HOME
\* is set in the environment
ArgSets ==
    [ username : {None, Some("carol")},
      password : {None, Some("pw1")},
      command  : {"none", "switch --list"},
      home     : BOOLEAN ]

----------------------------------------------------------------------------
(* command.rs: the requests FritzboxLogin and FritzboxSwitchOperator send   *)
(* and what FritzboxLogin makes of the reply                                *)

LOGIN_COMMAND_PATH == "/login_sid.lua?version=2"

SWITCH_COMMAND_PATH == "/webservices/homeautoswitch.lua"

\* FritzboxLogin::get_session_info: GET of the login path
GetSessionInfoRequest ==
    [method |-> "GET", path |-> LOGIN_COMMAND_PATH, form |-> "none"]

\* a connect_with_sid request that posts the sentinel instead of the sid given
ConnectWithSidRequest_sentinel(sid) ==
    [method |-> "POST", path |-> LOGIN_COMMAND_PATH, form |-> "sid",
     sid |-> INVALID_SESSION]

\* FritzboxLogin::connect_with_sid: POST of "sid={sid}"
ConnectWithSidRequest(sid) ==
    [method |-> "POST", path |-> LOGIN_COMMAND_PATH, form |-> "sid", sid |-> sid]

\* FritzboxLogin::connect_with_credentials: POST of
\* "username={username}&response={response}"
ConnectWithCredentialsRequest(username, response) ==
    [method |-> "POST", path |-> LOGIN_COMMAND_PATH, form |-> "credentials",
     username |-> username, response |-> response]

\* FritzboxSwitchOperator::get_switches: GET of "switchcmd=getswitchlist&sid={sid}"
GetSwitchListRequest(sid) ==
    [method |-> "GET", path |-> SWITCH_COMMAND_PATH, form |-> "getswitchlist",
     sid |-> sid]

\* the three FritzboxLogin methods treat the reply alike: a transport error
\* is returned as Err ('?'), the body is parsed with from_str(..).unwrap()
LoginResult(reply) ==
    CASE reply.kind = "error"   -> [kind |-> "Err"]
      [] reply.kind = "garbled" -> [kind |-> "panic"]
      [] reply.kind = "body"    -> [kind |-> "Ok", info |-> Some(reply.info)]

----------------------------------------------------------------------------
(* lib.rs: Fritzbox, as functions of the instance's session_info            *)

\* is_connected with None taken for a connection
is_connected_none_connected(si) ==
    IF IsSome(si) THEN Unwrap(si).sid # INVALID_SESSION ELSE TRUE

is_connected(si) ==
    IF IsSome(si) THEN Unwrap(si).sid # INVALID_SESSION ELSE FALSE

\* update_session_info that returns Ok(()) also when the exchange failed
update_session_info_swallows_error(si, res) ==
    IF res.kind = "Ok"
    THEN [session_info |-> res.info, result |-> [kind |-> "Ok", value |-> "()"]]
    ELSE [session_info |-> si, result |-> [kind |-> "Ok", value |-> "()"]]

\* Fritzbox::update_session_info, given what login.get_session_info returned
update_session_info(si, res) ==
    IF res.kind = "Ok"
    THEN [session_info |-> res.info, result |-> [kind |-> "Ok", value |-> "()"]]
    ELSE [session_info |-> si, result |-> [kind |-> "Err"]]

\* connect_with_sid that returns the negation of is_connected
connect_with_sid_negated(si, res) ==
    IF res.kind = "Ok"
    THEN [session_info |-> res.info,
          result |-> [kind |-> "Ok", value |-> ~is_connected(res.info)]]
    ELSE [session_info |-> si, result |-> [kind |-> "Err"]]

\* connect_with_sid that returns Ok(true) for every answer
connect_with_sid_always_true(si, res) ==
    IF res.kind = "Ok"
    THEN [session_info |-> res.info, result |-> [kind |-> "Ok", value |-> TRUE]]
    ELSE [session_info |-> si, result |-> [kind |-> "Err"]]

\* Fritzbox::connect_with_sid, given what login.connect_with_sid returned
connect_with_sid(si, res) ==
    IF res.kind = "Ok"
    THEN [session_info |-> res.info,
          result |-> [kind |-> "Ok", value |-> is_connected(res.info)]]
    ELSE [session_info |-> si, result |-> [kind |-> "Err"]]

\* connect_with_credentials that keeps a session_info it already has
\* instead of replacing it by the fresh one
refresh_session_info_keeps_old(si, res) ==
    IF res.kind = "Ok"
    THEN [session_info |-> IF IsSome(si) THEN si ELSE res.info,
          result |-> [kind |-> "Ok", value |-> "()"]]
    ELSE [session_info |-> si, result |-> [kind |-> "Err"]]

\* Fritzbox::connect_with_credentials: its first statement,
\* self.update_session_info().await?, given what login.get_session_info
\* returned
refresh_session_info(si, res) == update_session_info(si, res)

\* connect_with_credentials that forgets the record when the exchange failed
connect_with_credentials_drops_on_error(si, res) ==
    IF res.kind = "Ok"
    THEN [session_info |-> res.info,
          result |-> [kind |-> "Ok", value |-> is_connected(res.info)]]
    ELSE [session_info |-> None, result |-> [kind |-> "Err"]]

\* connect_with_credentials that takes the sid and the users of the answer
\* but keeps the challenge it had
connect_with_credentials_keeps_challenge(si, res) ==
    IF res.kind = "Ok"
    THEN [session_info |->
              IF IsSome(si) /\ IsSome(res.info)
              THEN Some([Unwrap(res.info) EXCEPT !.challenge = Unwrap(si).challenge])
              ELSE res.info,
          result |-> [kind |-> "Ok", value |-> is_connected(res.info)]]
    ELSE [session_info |-> si, result |-> [kind |-> "Err"]]

\* Fritzbox::connect_with_credentials after its update_session_info: the
\* second assignment, given what login.connect_with_credentials returned
connect_with_credentials(si, res) ==
    IF res.kind = "Ok"
    THEN [session_info |-> res.info,
          result |-> [kind |-> "Ok", value |-> is_connected(res.info)]]
    ELSE [session_info |-> si, result |-> [kind |-> "Err"]]

----------------------------------------------------------------------------
(* main.rs: helpers of the command line run                                 *)

\* users.iter().find(|u| u.last.is_some() && u.last.unwrap() == 1)
IsLast(u) == IsSome(u.last) /\ Unwrap(u.last) = 1

FindLastUser(users) ==
    IF \E i \in 1..Len(users) : IsLast(users[i])
    THEN Some(users[CHOOSE i \in 1..Len(users) :
                  /\ IsLast(users[i])
                  /\ \A j \in 1..(i - 1) : ~IsLast(users[j])])
    ELSE None

\* the username connect_to_fritzbox_with_credentials settles on: None when
\* it panics with "No username available."
ResolveUsername(si, arg_username) ==
    LET user == FindLastUser(Unwrap(si).users)
    IN  IF IsSome(user) THEN Some(Unwrap(user).username) ELSE arg_username

LogLine(level, text, value) == [level |-> level, text |-> text, value |-> value]

PanicNoSessionInfo == "panic: Unable to receive session information from Fritzbox"

PanicNoUsername == "panic: No username available."

PanicUnableToConnect == "panic: Unable to connect to Fritzbox!"

PanicUnwrap == "panic: unwrap on None or Err"

\* str::strip_suffix("\n"): None when the text does not end in a newline
StripNewline(text) ==
    IF Len(text) > 0 /\ text[Len(text)] = "\n"
    THEN Some(SubSeq(text, 1, Len(text) - 1))
    ELSE None

\* command::Device
Device(ain, name) == [ain |-> ain, name |-> name]

\* FritzboxSwitchOperator::get_switch: GET of
\* "switchcmd=getswitchname&sid={sid}&ain={ain}"
GetSwitchNameRequest(sid, ain) ==
    [method |-> "GET", path |-> SWITCH_COMMAND_PATH, form |-> "getswitchname",
     sid |-> sid, ain |-> ain]

\* bodies the switch endpoint may answer a list request with
SwitchListBodies ==
    { <<"\n">>, <<"7", "\n">>, <<"7", ",", "8", "\n">>, <<"7">> }

\* bodies the switch endpoint may answer a name request with
SwitchNameBodies == { <<"n", "\n">>, <<"n">> }

SwitchReplies(bodies) ==
    { [kind |-> "error"] } \cup { [kind |-> "body", text |-> b] : b \in bodies }

----------------------------------------------------------------------------
(* State of one command line run                                            *)

VARIABLES
    args,          \* the parsed command line and environment
    store,         \* the sid file: None when it does not exist, else its content
    pc,            \* where the run is
    session_info,  \* Fritzbox::session_info
    stored_sid,    \* connect_to_fritzbox: stored_sid
    username,      \* connect_to_fritzbox_with_credentials: username
    password,      \* connect_to_fritzbox_with_credentials: password
    inflight,      \* the request being awaited, if any
    ains,          \* get_switches: the AINs still to be asked for
    devices,       \* get_switches: switches
    result,        \* what the last Fritzbox call returned
    outcome,       \* "running", "exit_ok" or the panic that ended the run
    log,           \* the lines written through the log macros
    trace,         \* history: every request sent, in order
    latest,        \* history: the last SessionInfo a reply carried
    replies,       \* history: how each request of trace was answered
    loads,         \* history: number of get_stored_sid calls
    saves,         \* history: the store_sid calls, token and outcome
    pwRequests,    \* history: number of get_password calls
    derives        \* history: number of get_challenge_response calls

vars == <<args, store, pc, session_info, stored_sid, username, password,
          inflight, ains, devices, result, outcome, log, trace, latest, replies,
          loads, saves, pwRequests, derives>>

Init ==
    /\ args \in ArgSets
    /\ store \in {None} \cup { Some(t) : t \in StoredTokens }
    /\ pc = "start"
    /\ session_info = None
    /\ stored_sid = None
    /\ username = None
    /\ password = None
    /\ inflight = None
    /\ ains = <<>>
    /\ devices = <<>>
    /\ result = None
    /\ outcome = "running"
    /\ log = <<>>
    /\ trace = <<>>
    /\ latest = None
    /\ replies = <<>>
    /\ loads = 0
    /\ saves = <<>>
    /\ pwRequests = 0
    /\ derives = 0

\* a request that is sent a second time
Send_twice(req) ==
    /\ inflight' = Some(req)
    /\ trace' = trace \o <<req, req>>

\* a request goes out and the run awaits its reply
Send(req) ==
    /\ inflight' = Some(req)
    /\ trace' = Append(trace, req)

\* panic!: the process ends
Panic(message) ==
    /\ pc' = "done"
    /\ outcome' = message

Logged(line) == log' = Append(log, line)

\* main up to the first await of connect_to_fritzbox: Fritzbox::new and the
\* request of update_session_info
Start ==
    /\ pc = "start"
    /\ pc' = "probe_wait"
    /\ session_info' = None
    /\ Send(GetSessionInfoRequest)
    /\ UNCHANGED <<args, ains, devices, store, stored_sid, username, password, result,
                   outcome, log, latest, replies, loads, saves,
                   pwRequests, derives>>

\* history: what kind of answer a login request got
ReplyClass(reply) ==
    IF reply.kind = "body"
    THEN IF reply.info.sid = INVALID_SESSION THEN "sentinel" ELSE "valid"
    ELSE reply.kind

\* history: what kind of answer a switch request got
SwitchReplyClass(reply) == reply.kind

\* connect_to_fritzbox: update_session_info returns
ProbeReturn ==
    /\ pc = "probe_wait"
    /\ \E reply \in HttpReplies :
        LET res == LoginResult(reply)
            upd == update_session_info(session_info, res)
        IN  /\ inflight' = None
            /\ replies' = Append(replies, ReplyClass(reply))
            /\ IF res.kind = "panic"
               THEN /\ Panic(PanicUnwrap)
                    /\ UNCHANGED <<session_info, latest, result, log>>
               ELSE IF upd.result.kind = "Err"
               THEN /\ Panic(PanicNoSessionInfo)
                    /\ session_info' = upd.session_info
                    /\ result' = Some(upd.result)
                    /\ UNCHANGED <<latest, log>>
               ELSE /\ session_info' = upd.session_info
                    /\ result' = Some(upd.result)
                    /\ latest' = IF reply.kind = "body" THEN Some(reply.info) ELSE latest
                    /\ Logged(LogLine("debug", "Session info", upd.session_info))
                    /\ pc' = "load"
                    /\ UNCHANGED outcome
    /\ UNCHANGED <<args, ains, devices, store, stored_sid, username, password,
                   trace, loads, saves, pwRequests, derives>>

\* connect_to_fritzbox: the path of the sid file and get_stored_sid
GetStoredSid ==
    /\ pc = "load"
    /\ \E canOpen \in BOOLEAN, canRead \in BOOLEAN :
        IF ~args.home
        THEN /\ Panic(PanicUnwrap)
             /\ UNCHANGED <<stored_sid, loads, log>>
        ELSE /\ loads' = loads + 1
             /\ IF IsNone(store)
                THEN /\ stored_sid' = None
                     /\ pc' = "match"
                     /\ UNCHANGED <<outcome, log>>
                ELSE /\ Logged(LogLine("info", "Reading SID from file...", "-"))
                     /\ IF ~canOpen
                        THEN /\ Panic(PanicUnwrap)
                             /\ UNCHANGED stored_sid
                        ELSE /\ stored_sid' = IF canRead THEN Some(Unwrap(store)) ELSE None
                             /\ pc' = "match"
                             /\ UNCHANGED outcome
    /\ UNCHANGED <<args, ains, devices, store, session_info, username,
                   password, inflight, result, trace, latest, replies, saves,
                   pwRequests, derives>>

\* connect_to_fritzbox: match stored_sid, up to the next await
MatchStoredSid ==
    /\ pc = "match"
    /\ IF IsNone(stored_sid)
       THEN /\ Logged(LogLine("info", "No cached SID available. Request new SID...", "-"))
            /\ pc' = "resolve"
            /\ UNCHANGED <<inflight, trace>>
       ELSE /\ Send(ConnectWithSidRequest(Unwrap(stored_sid)))
            /\ pc' = "sid_wait"
            /\ UNCHANGED log
    /\ UNCHANGED <<args, ains, devices, store, session_info, stored_sid,
                   username, password, result, outcome, latest, replies, loads,
                   saves, pwRequests, derives>>

\* connect_to_fritzbox: connect_with_sid returns
SidReturn ==
    /\ pc = "sid_wait"
    /\ \E reply \in HttpReplies :
        LET res == LoginResult(reply)
            upd == connect_with_sid(session_info, res)
        IN  /\ inflight' = None
            /\ replies' = Append(replies, ReplyClass(reply))
            /\ IF res.kind = "panic"
               THEN /\ Panic(PanicUnwrap)
                    /\ UNCHANGED <<session_info, latest, result, log>>
               ELSE /\ session_info' = upd.session_info
                    /\ result' = Some(upd.result)
                    /\ latest' = IF reply.kind = "body" THEN Some(reply.info) ELSE latest
                    /\ UNCHANGED outcome
                    /\ IF upd.result.kind = "Err"
                       THEN /\ Logged(LogLine("debug",
                                   "Could not validate SID due to the following error",
                                   upd.result))
                            /\ pc' = "resolve"
                       ELSE IF upd.result.value
                       THEN /\ Logged(LogLine("info", "Cached SID still valid. Re-use...", "-"))
                            /\ pc' = "returned"
                       ELSE /\ Logged(LogLine("info", "Cached SID invalid. Request new SID...", "-"))
                            /\ pc' = "resolve"
    /\ UNCHANGED <<args, ains, devices, store, stored_sid, username, password,
                   trace, loads, saves, pwRequests, derives>>

\* connect_to_fritzbox_with_credentials: the username
ResolveUser ==
    /\ pc = "resolve"
    /\ IF IsNone(session_info)
       THEN /\ Panic(PanicUnwrap)
            /\ UNCHANGED username
       ELSE IF IsNone(ResolveUsername(session_info, args.username))
       THEN /\ Panic(PanicNoUsername)
            /\ UNCHANGED username
       ELSE /\ username' = ResolveUsername(session_info, args.username)
            /\ pc' = "password"
            /\ UNCHANGED outcome
    /\ UNCHANGED <<args, ains, devices, store, session_info, stored_sid,
                   password, inflight, result, log, trace, latest, replies,
                   loads, saves, pwRequests, derives>>

\* get_password: the --password argument, or the prompt, which may fail
GetPassword ==
    /\ pc = "password"
    /\ pwRequests' = pwRequests + 1
    /\ IF IsSome(args.password)
       THEN /\ password' = args.password
            /\ pc' = "connect"
            /\ UNCHANGED outcome
       ELSE \E typed \in {None} \cup { Some(p) : p \in Passwords } :
            IF IsNone(typed)
            THEN /\ Panic(PanicUnwrap)
                 /\ UNCHANGED password
            ELSE /\ password' = typed
                 /\ pc' = "connect"
                 /\ UNCHANGED outcome
    /\ UNCHANGED <<args, ains, devices, store, session_info, stored_sid,
                   username, inflight, result, log, trace, latest, replies,
                   loads, saves, derives>>

\* Fritzbox::connect_with_credentials: the request of its update_session_info
ConnectStart ==
    /\ pc = "connect"
    /\ Send(GetSessionInfoRequest)
    /\ pc' = "reprobe_wait"
    /\ UNCHANGED <<args, ains, devices, store, session_info, stored_sid,
                   username, password, result, outcome, log, latest, replies,
                   loads, saves, pwRequests, derives>>

\* Fritzbox::connect_with_credentials: its update_session_info returns
ReprobeReturn ==
    /\ pc = "reprobe_wait"
    /\ \E reply \in HttpReplies :
        LET res == LoginResult(reply)
            upd == refresh_session_info(session_info, res)
        IN  /\ inflight' = None
            /\ replies' = Append(replies, ReplyClass(reply))
            /\ IF res.kind = "panic"
               THEN /\ Panic(PanicUnwrap)
                    /\ UNCHANGED <<session_info, latest, result>>
               ELSE /\ session_info' = upd.session_info
                    /\ latest' = IF reply.kind = "body" THEN Some(reply.info) ELSE latest
                    /\ IF upd.result.kind = "Err"
                       THEN /\ Panic(PanicUnableToConnect)
                            /\ result' = Some(upd.result)
                       ELSE /\ pc' = "derive"
                            /\ UNCHANGED <<result, outcome>>
    /\ UNCHANGED <<args, ains, devices, store, stored_sid, username, password,
                   log, trace, loads, saves, pwRequests, derives>>

\* Fritzbox::connect_with_credentials: the response is derived from the
\* challenge of session_info and the credentials are sent
DeriveAndSend ==
    /\ pc = "derive"
    /\ IF IsNone(session_info)
       THEN /\ Panic(PanicUnwrap)
            /\ UNCHANGED <<inflight, trace, derives>>
       ELSE /\ derives' = derives + 1
            /\ IF ChallengePanics(Unwrap(session_info).challenge)
               THEN /\ Panic(PanicUnwrap)
                    /\ UNCHANGED <<inflight, trace>>
               ELSE /\ Send(ConnectWithCredentialsRequest(
                                Unwrap(username),
                                get_challenge_response(Unwrap(session_info).challenge,
                                                       Unwrap(password))))
                    /\ pc' = "cred_wait"
                    /\ UNCHANGED outcome
    /\ UNCHANGED <<args, ains, devices, store, session_info, stored_sid,
                   username, password, result, log, latest, replies, loads,
                   saves, pwRequests>>

\* connect_to_fritzbox_with_credentials: connect_with_credentials returns
CredReturn ==
    /\ pc = "cred_wait"
    /\ \E reply \in HttpReplies :
        LET res == LoginResult(reply)
            upd == connect_with_credentials(session_info, res)
        IN  /\ inflight' = None
            /\ replies' = Append(replies, ReplyClass(reply))
            /\ IF res.kind = "panic"
               THEN /\ Panic(PanicUnwrap)
                    /\ UNCHANGED <<session_info, latest, result>>
               ELSE /\ session_info' = upd.session_info
                    /\ result' = Some(upd.result)
                    /\ latest' = IF reply.kind = "body" THEN Some(reply.info) ELSE latest
                    /\ IF upd.result.kind = "Err"
                       THEN Panic(PanicUnableToConnect)
                       ELSE /\ pc' = "store"
                            /\ UNCHANGED outcome
    /\ UNCHANGED <<args, ains, devices, store, stored_sid, username, password,
                   log, trace, loads, saves, pwRequests, derives>>

\* store_sid called a second time when the write failed
StoreSid_twice ==
    /\ pc = "store"
    /\ \E canCreate \in BOOLEAN, canWrite \in BOOLEAN :
        IF IsNone(session_info)
        THEN /\ Panic(PanicUnwrap)
             /\ UNCHANGED <<store, saves, log>>
        ELSE LET sid == Unwrap(session_info).sid
             IN  IF ~canCreate
                 THEN /\ Panic(PanicUnwrap)
                      /\ saves' = Append(saves, [token |-> sid, outcome |-> "create failed"])
                      /\ UNCHANGED <<store, log>>
                 ELSE IF canWrite
                 THEN /\ store' = Some(sid)
                      /\ saves' = Append(saves, [token |-> sid, outcome |-> "written"])
                      /\ pc' = "returned"
                      /\ UNCHANGED <<outcome, log>>
                 ELSE /\ store' = Some(sid)
                      /\ saves' = saves \o <<[token |-> sid, outcome |-> "write failed"],
                                             [token |-> sid, outcome |-> "written"]>>
                      /\ Logged(LogLine("warn", "Unable to cache SID.", "-"))
                      /\ pc' = "returned"
                      /\ UNCHANGED outcome
    /\ UNCHANGED <<args, ains, devices, session_info, stored_sid, username,
                   password, inflight, result, trace, latest, replies, loads,
                   pwRequests, derives>>

\* store_sid and the check of its result
StoreSid ==
    /\ pc = "store"
    /\ \E canCreate \in BOOLEAN, canWrite \in BOOLEAN :
        IF IsNone(session_info)
        THEN /\ Panic(PanicUnwrap)
             /\ UNCHANGED <<store, saves, log>>
        ELSE LET sid == Unwrap(session_info).sid
             IN  IF ~canCreate
                 THEN /\ Panic(PanicUnwrap)
                      /\ saves' = Append(saves, [token |-> sid, outcome |-> "create failed"])
                      /\ UNCHANGED <<store, log>>
                 ELSE IF canWrite
                 THEN /\ store' = Some(sid)
                      /\ saves' = Append(saves, [token |-> sid, outcome |-> "written"])
                      /\ pc' = "returned"
                      /\ UNCHANGED <<outcome, log>>
                 ELSE /\ store' = Some("")
                      /\ saves' = Append(saves, [token |-> sid, outcome |-> "write failed"])
                      /\ Logged(LogLine("warn", "Unable to cache SID.", "-"))
                      /\ pc' = "returned"
                      /\ UNCHANGED outcome
    /\ UNCHANGED <<args, ains, devices, session_info, stored_sid, username,
                   password, inflight, result, trace, latest, replies, loads,
                   pwRequests, derives>>

\* main after connect_to_fritzbox returned, up to the request of
\* Fritzbox::get_switches
AfterConnect ==
    /\ pc = "returned"
    /\ IF IsNone(session_info)
       THEN /\ Panic(PanicUnwrap)
            /\ UNCHANGED <<inflight, trace, log>>
       ELSE IF args.command = "switch --list"
       THEN /\ log' = log \o <<LogLine("debug", "The SID", Unwrap(session_info).sid),
                               LogLine("debug", "List switches...", "-")>>
            /\ Send(GetSwitchListRequest(Unwrap(session_info).sid))
            /\ pc' = "list_wait"
            /\ UNCHANGED outcome
       ELSE /\ Logged(LogLine("debug", "The SID", Unwrap(session_info).sid))
            /\ pc' = "done"
            /\ outcome' = "exit_ok"
            /\ UNCHANGED <<inflight, trace>>
    /\ UNCHANGED <<args, ains, devices, store, session_info, stored_sid,
                   username, password, result, latest, replies, loads, saves,
                   pwRequests, derives>>

\* FritzboxSwitchOperator::get_switches: the list request returns; the first
\* get_switch request goes out
ListReturn ==
    /\ pc = "list_wait"
    /\ \E reply \in SwitchReplies(SwitchListBodies) :
        /\ replies' = Append(replies, SwitchReplyClass(reply))
        /\ IF reply.kind = "error" \/ IsNone(StripNewline(reply.text))
           THEN /\ Panic(PanicUnwrap)
                /\ inflight' = None
                /\ UNCHANGED <<ains, trace>>
           ELSE /\ ains' = Split(Unwrap(StripNewline(reply.text)), ",")
                /\ Send(GetSwitchNameRequest(Unwrap(session_info).sid, ains'[1]))
                /\ pc' = "name_wait"
                /\ UNCHANGED outcome
    /\ UNCHANGED <<args, devices, store, session_info, stored_sid, username,
                   password, result, log, latest, loads, saves, pwRequests,
                   derives>>

\* FritzboxSwitchOperator::get_switch returns: the device is pushed and the
\* next AIN is asked for, or get_switches returns and main lists the devices
NameReturn ==
    /\ pc = "name_wait"
    /\ \E reply \in SwitchReplies(SwitchNameBodies) :
        /\ replies' = Append(replies, SwitchReplyClass(reply))
        /\ IF reply.kind = "error" \/ IsNone(StripNewline(reply.text))
           THEN /\ Panic(PanicUnwrap)
                /\ inflight' = None
                /\ UNCHANGED <<ains, devices, trace>>
           ELSE /\ devices' = Append(devices,
                                  Device(Head(ains), Unwrap(StripNewline(reply.text))))
                /\ ains' = Tail(ains)
                /\ IF Len(ains) > 1
                   THEN /\ Send(GetSwitchNameRequest(Unwrap(session_info).sid, ains[2]))
                        /\ UNCHANGED <<pc, outcome>>
                   ELSE /\ inflight' = None
                        /\ pc' = "done"
                        /\ outcome' = "exit_ok"
                        /\ UNCHANGED trace
    /\ UNCHANGED <<args, store, session_info, stored_sid, username, password,
                   result, log, latest, loads, saves, pwRequests, derives>>

Next ==
    \/ Start
    \/ ProbeReturn
    \/ GetStoredSid
    \/ MatchStoredSid
    \/ SidReturn
    \/ ResolveUser
    \/ GetPassword
    \/ ConnectStart
    \/ ReprobeReturn
    \/ DeriveAndSend
    \/ CredReturn
    \/ StoreSid
    \/ AfterConnect
    \/ ListReturn
    \/ NameReturn

Spec == Init /\ [][Next]_vars

----------------------------------------------------------------------------
(* The library alone: any sequence of update_session_info, connect_with_sid *)
(* and connect_with_credentials calls on one Fritzbox, with any Login       *)
(* implementation behind it (it may return Ok(None), as the trait allows)   *)

LibSessionInfos ==
    { SessionInfo(sid, ChallengeA, <<>>) : sid \in Sids }
        \cup { SessionInfo(INVALID_SESSION, ChallengeShort, <<User("alice", Some(1))>>) }

LoginResults ==
    { [kind |-> "Err"], [kind |-> "Ok", info |-> None] }
        \cup { [kind |-> "Ok", info |-> Some(r)] : r \in LibSessionInfos }

LibInit ==
    /\ args = [username |-> None, password |-> None, command |-> "none", home |-> TRUE]
    /\ store = None
    /\ pc = "lib"
    /\ session_info = None
    /\ stored_sid = None
    /\ username = None
    /\ password = None
    /\ inflight = None
    /\ ains = <<>>
    /\ devices = <<>>
    /\ result = None
    /\ outcome = "running"
    /\ log = <<>>
    /\ trace = <<>>
    /\ latest = None
    /\ replies = <<>>
    /\ loads = 0
    /\ saves = <<>>
    /\ pwRequests = 0
    /\ derives = 0

\* history: what kind of answer the Login implementation gave
ResultClass(res) ==
    IF res.kind = "Ok"
    THEN IF IsNone(res.info) THEN "nothing"
         ELSE IF Unwrap(res.info).sid = INVALID_SESSION THEN "sentinel" ELSE "valid"
    ELSE "error"

\* Fritzbox::update_session_info, called by a user of the library
LibUpdateSessionInfo ==
    /\ pc = "lib"
    /\ Len(trace) < MaxLibRequests
    /\ \E res \in LoginResults :
        LET upd == update_session_info(session_info, res)
        IN  /\ session_info' = upd.session_info
            /\ result' = Some(upd.result)
            /\ latest' = IF res.kind = "Ok" THEN res.info ELSE latest
            /\ replies' = Append(replies, ResultClass(res))
    /\ trace' = Append(trace, GetSessionInfoRequest)
    /\ UNCHANGED <<args, ains, devices, store, pc, stored_sid, username,
                   password, inflight, outcome, log, loads, saves, pwRequests,
                   derives>>

\* Fritzbox::connect_with_sid, called by a user of the library
LibConnectWithSid ==
    /\ pc = "lib"
    /\ Len(trace) < MaxLibRequests
    /\ \E sid \in {ValidSid1, INVALID_SESSION}, res \in LoginResults :
        LET upd == connect_with_sid(session_info, res)
        IN  /\ session_info' = upd.session_info
            /\ result' = Some(upd.result)
            /\ latest' = IF res.kind = "Ok" THEN res.info ELSE latest
            /\ replies' = Append(replies, ResultClass(res))
            /\ trace' = Append(trace, ConnectWithSidRequest(sid))
    /\ UNCHANGED <<args, ains, devices, store, pc, stored_sid, username,
                   password, inflight, outcome, log, loads, saves, pwRequests,
                   derives>>

\* Fritzbox::connect_with_credentials, called by a user of the library
LibConnectWithCredentials ==
    /\ pc = "lib"
    /\ Len(trace) < MaxLibRequests
    /\ \E res1 \in LoginResults :
        LET upd1 == refresh_session_info(session_info, res1)
        IN  IF upd1.result.kind = "Err"
            THEN /\ session_info' = upd1.session_info
                 /\ result' = Some(upd1.result)
                 /\ trace' = Append(trace, GetSessionInfoRequest)
                 /\ replies' = Append(replies, ResultClass(res1))
                 /\ UNCHANGED <<latest, pc, outcome, derives>>
            ELSE IF IsNone(upd1.session_info)
            THEN /\ session_info' = upd1.session_info
                 /\ latest' = res1.info
                 /\ trace' = Append(trace, GetSessionInfoRequest)
                 /\ replies' = Append(replies, ResultClass(res1))
                 /\ Panic(PanicUnwrap)
                 /\ UNCHANGED <<result, derives>>
            ELSE IF ChallengePanics(Unwrap(upd1.session_info).challenge)
            THEN /\ session_info' = upd1.session_info
                 /\ latest' = res1.info
                 /\ trace' = Append(trace, GetSessionInfoRequest)
                 /\ replies' = Append(replies, ResultClass(res1))
                 /\ derives' = derives + 1
                 /\ Panic(PanicUnwrap)
                 /\ UNCHANGED result
            ELSE \E name \in {"carol"}, pw \in Passwords, res2 \in LoginResults :
                 LET upd2 == connect_with_credentials(upd1.session_info, res2)
                 IN  /\ session_info' = upd2.session_info
                     /\ result' = Some(upd2.result)
                     /\ latest' = IF res2.kind = "Ok" THEN res2.info ELSE res1.info
                     /\ trace' = trace \o
                            <<GetSessionInfoRequest,
                              ConnectWithCredentialsRequest(
                                  name,
                                  get_challenge_response(
                                      Unwrap(upd1.session_info).challenge, pw))>>
                     /\ replies' = replies \o <<ResultClass(res1), ResultClass(res2)>>
                     /\ derives' = derives + 1
                     /\ UNCHANGED <<pc, outcome>>
    /\ UNCHANGED <<args, ains, devices, store, stored_sid, username, password,
                   inflight, log, loads, saves, pwRequests>>

LibNext ==
    \/ LibUpdateSessionInfo
    \/ LibConnectWithSid
    \/ LibConnectWithCredentials

LibSpec == LibInit /\ [][LibNext]_vars

----------------------------------------------------------------------------
(* Reading the history                                                      *)

\* the forms of the requests sent to the login endpoint, in order
LoginForms ==
    LET login == SelectSeq(trace, LAMBDA r : r.path = LOGIN_COMMAND_PATH)
    IN  [i \in 1..Len(login) |-> login[i].form]

\* number of username+response submissions
CredRequests == Cardinality({ i \in 1..Len(trace) : trace[i].form = "credentials" })

\* how the request of the given form was answered; "none" while it was not
ReplyTo(form) ==
    IF \E i \in 1..Len(replies) : trace[i].form = form
    THEN replies[CHOOSE i \in 1..Len(replies) : trace[i].form = form]
    ELSE "none"

\* how the first request, the probe, was answered
ProbeReply == IF Len(replies) >= 1 THEN replies[1] ELSE "none"

SidReply == ReplyTo("sid")

CredReply == ReplyTo("credentials")

HasLogged(text) == \E i \in 1..Len(log) : log[i].text = text

IsPrefix(a, b) == Len(a) <= Len(b) /\ \A i \in 1..Len(a) : a[i] = b[i]

\* the probe succeeded and the run was sent on to credential authentication:
\* the sid file gave no token, or the cached token was answered with the
\* sentinel sid or a transport error
FallThrough ==
    /\ ProbeReply \in {"valid", "sentinel"}
    /\ \/ HasLogged("No cached SID available. Request new SID...")
       \/ SidReply \in {"sentinel", "error"}

----------------------------------------------------------------------------
(* Claims                                                                   *)

\* C1: after any sequence of update_session_info, connect_with_sid and
\* connect_with_credentials calls, successful or failed, is_connected() is
\* true iff a session record was obtained and the last one obtained carries a
\* sid other than the sentinel; it is false before the first call.
C1_IsConnectedIffValidSid ==
    /\ is_connected(session_info)
         <=> (IsSome(latest) /\ Unwrap(latest).sid # INVALID_SESSION)
    /\ (trace = <<>> => ~is_connected(session_info))

\* connected, after a call that failed
C1_Witness ==
    /\ pc = "lib"
    /\ Len(trace) >= 2
    /\ IsSome(result) /\ Unwrap(result).kind = "Err"
    /\ IsSome(latest) /\ Unwrap(latest).sid = ValidSid2
    /\ is_connected(session_info)

\* C2: when the cached-token attempt is answered with a sid that is not the
\* sentinel, the run stays connected on the record of that answer, and no
\* response is derived, no credentials are sent and no password is asked for.
C2_AcceptedTokenSkipsCredentials ==
    SidReply = "valid" =>
        /\ pc \in {"returned", "list_wait", "name_wait", "done"}
        /\ session_info = latest
        /\ IsSome(session_info) /\ Unwrap(session_info).sid # INVALID_SESSION
        /\ derives = 0
        /\ pwRequests = 0
        /\ CredRequests = 0
        /\ outcome \notin {PanicNoSessionInfo, PanicNoUsername, PanicUnableToConnect}

C2_Witness ==
    /\ SidReply = "valid"
    /\ pc = "done"
    /\ outcome = "exit_ok"

\* C3 as claimed: a run sent on to credential authentication ends with
\* exactly one username+response submission.
C3_ExactlyOneSubmission ==
    (FallThrough /\ pc = "done") => CredRequests = 1

\* C3 as amended: a run sent on to credential authentication is not ended by
\* the missing or rejected token: it gets to the username, and ends, if it
\* ends before the password is asked for, only for want of a username; it
\* submits credentials at most once, exactly once when it exits normally, and
\* not at all only when it panics before the submission.
C3_AtMostOneSubmission ==
    FallThrough =>
        /\ CredRequests <= 1
        /\ pc \notin {"load", "match", "sid_wait"}
        /\ (pc = "done" => (outcome = PanicNoUsername \/ pwRequests = 1))
        /\ (outcome = "exit_ok" => CredRequests = 1)
        /\ ((pc = "done" /\ CredRequests = 0) =>
                outcome \in {PanicNoUsername, PanicUnwrap, PanicUnableToConnect})

\* the cached token was answered with the sentinel and credentials went out
C3_Witness ==
    /\ SidReply = "sentinel"
    /\ CredRequests = 1
    /\ outcome = "exit_ok"

\* C4: the response that is submitted was derived from the challenge of the
\* record obtained last: the request before the submission is the
\* update_session_info of connect_with_credentials, every earlier request
\* was answered before it, and the response is the one derived from the
\* challenge its answer carried.
C4_ResponseFromLatestChallenge ==
    pc = "cred_wait" =>
        /\ IsSome(inflight)
        /\ Unwrap(inflight) = trace[Len(trace)]
        /\ Unwrap(inflight).form = "credentials"
        /\ trace[Len(trace) - 1] = GetSessionInfoRequest
        /\ Len(replies) = Len(trace) - 1
        /\ IsSome(latest)
        /\ ~ChallengePanics(Unwrap(latest).challenge)
        /\ Unwrap(inflight).response =
               get_challenge_response(Unwrap(latest).challenge, Unwrap(password))

\* credentials are out and the first probe had carried another challenge
C4_Witness ==
    /\ pc = "cred_wait"
    /\ Unwrap(log[1].value).challenge = ChallengeA
    /\ Unwrap(latest).challenge = ChallengeB

\* C5 as claimed: when the credentials are answered with the sentinel sid the
\* run ends as failed, and does not go on as a successful connection.
C5_SentinelAnswerFailsRun ==
    CredReply = "sentinel" => (pc = "done" /\ outcome \notin {"running", "exit_ok"})

\* C6 as claimed: store_sid is called only after the credentials were
\* answered with a sid that is not the sentinel, and the token it writes is
\* the sid of session_info, never the sentinel.
C6_SaveOnlyAuthenticatedSid ==
    \A i \in 1..Len(saves) :
        /\ CredReply = "valid"
        /\ IsSome(session_info)
        /\ saves[i].token = Unwrap(session_info).sid
        /\ saves[i].token # INVALID_SESSION

\* C7 as claimed: whenever the switch list is requested, session_info is
\* present, its sid is not the sentinel and it is the sid of the request.
C7_SwitchesOnlyWhenAuthenticated ==
    \A i \in 1..Len(trace) :
        trace[i].form = "getswitchlist" =>
            /\ IsSome(session_info)
            /\ Unwrap(session_info).sid # INVALID_SESSION
            /\ trace[i].sid = Unwrap(session_info).sid

\* C8 as claimed: the requests to the login endpoint are one probe, then at
\* most one cached-token submission, then at most one credential submission.
C8_AtMostThreeExchanges ==
    \/ IsPrefix(LoginForms, <<"none", "sid", "credentials">>)
    \/ IsPrefix(LoginForms, <<"none", "credentials">>)

\* C8 as amended: the requests to the login endpoint are one probe, then at
\* most one cached-token submission, then, when credential authentication is
\* run, the probe of connect_with_credentials and at most one credential
\* submission: four at most, none repeated, and a request is sent only when
\* every earlier one was answered.
C8_AtMostFourExchanges ==
    /\ \/ IsPrefix(LoginForms, <<"none", "sid", "none", "credentials">>)
       \/ IsPrefix(LoginForms, <<"none", "none", "credentials">>)
    /\ Len(trace) - Len(replies) \in {0, 1}
    /\ IsSome(inflight) <=> Len(trace) - Len(replies) = 1
    /\ IsSome(inflight) => Unwrap(inflight) = trace[Len(trace)]

\* a run of all four exchanges that ended
C8_Witness ==
    /\ LoginForms = <<"none", "sid", "none", "credentials">>
    /\ Len(replies) >= 4
    /\ pc = "done"

\* C9 as claimed: the username submitted is that of the first user flagged
\* in the record obtained last before the submission, else the --username
\* argument; and a run without either panics before the password is asked
\* for and before credentials are sent.
C9_UsernameFromLatestRecord ==
    /\ pc = "cred_wait" =>
          /\ IsSome(ResolveUsername(latest, args.username))
          /\ Unwrap(inflight).username = Unwrap(ResolveUsername(latest, args.username))
    /\ outcome = PanicNoUsername => (pwRequests = 0 /\ CredRequests = 0)

\* C10: a transport error of the first probe ends the run with the panic
\* "Unable to receive session information": the sid file is not read, no
\* further request is sent, nothing is saved and no password is asked for.
C10_ProbeErrorIsFatal ==
    ProbeReply = "error" =>
        /\ pc = "done"
        /\ outcome = PanicNoSessionInfo
        /\ IsNone(session_info)
        /\ loads = 0
        /\ Len(trace) = 1
        /\ saves = <<>>
        /\ pwRequests = 0
        /\ derives = 0

C10_Witness ==
    /\ ProbeReply = "error"
    /\ pc = "done"
    /\ IsSome(store)

\* C11 as claimed: after credentials were accepted, a store_sid that fails,
\* be it at creating the file or at writing it, is only logged: the warning
\* is written, the run goes on to its end, and session_info stays the
\* accepted record.
C11_PersistFailureNotFatal ==
    \A i \in 1..Len(saves) :
        (CredReply = "valid" /\ saves[i].outcome # "written") =>
            /\ HasLogged("Unable to cache SID.")
            /\ pc # "store"
            /\ session_info = latest
            /\ is_connected(session_info)
            /\ (pc = "done" =>
                   \/ outcome = "exit_ok"
                   \/ \E k \in 1..Len(trace) : trace[k].form = "getswitchlist")

\* C12: in every run get_stored_sid is called at most once and store_sid is
\* called at most once, whichever way the run takes.
C12_OneLoadOneSave ==
    /\ loads <= 1
    /\ Len(saves) <= 1

\* a run whose cached-token call erred, loaded once and saved once
C12_Witness ==
    /\ SidReply = "error"
    /\ loads = 1
    /\ Len(saves) = 1
    /\ saves[1].outcome = "write failed"
    /\ pc = "done"

\* C13: after each login exchange that was answered with a record, probe,
\* cached-token attempt or credentials, session_info is that record: its
\* sid, its challenge and its user list, with nothing kept of the record
\* before.
C13_RecordWhollyReplaced ==
    IsSome(latest) =>
        /\ IsSome(session_info)
        /\ Unwrap(session_info).sid = Unwrap(latest).sid
        /\ Unwrap(session_info).challenge = Unwrap(latest).challenge
        /\ Unwrap(session_info).users = Unwrap(latest).users

\* credentials were accepted with a record that shares no field with the
\* record of the first probe
C13_Witness ==
    /\ CredReply = "valid"
    /\ pc = "store"
    /\ Unwrap(log[1].value).challenge = ChallengeB
    /\ Len(Unwrap(log[1].value).users) = 3
    /\ session_info = Some(SessionInfo(ValidSid2, ChallengeA, <<>>))

----------------------------------------------------------------------------
(* The credential step alone, for every challenge the box may send: the run *)
(* of a user who passes --username and --password and has no sid file, at   *)
(* the point where the update_session_info of connect_with_credentials has  *)
(* returned                                                                 *)

\* the text whose split at sep gives the fields
RECURSIVE Join(_, _)
Join(fields, sep) ==
    IF Len(fields) = 0 THEN <<>>
    ELSE IF Len(fields) = 1 THEN fields[1]
    ELSE fields[1] \o <<sep>> \o Join(Tail(fields), sep)

VersionFields == { <<"2">>, <<"1">> }

\* two counts, zero, a field that is no number, and u32::MAX + 1
IterationFields ==
    { <<"5">>, <<"3">>, <<"0">>, <<"x">>,
      <<"4", "2", "9", "4", "9", "6", "7", "2", "9", "6">> }

SaltFields == { <<"a", "b">>, <<"C", "d">>, <<"z", "z">> }

BaseFields == << <<"2">>, <<"5">>, <<"a", "b">>, <<"3">>, <<"C", "d">> >>

\* the base challenge cut down or extended to n fields
FieldsOfCount(n) ==
    IF n <= Len(BaseFields)
    THEN SubSeq(BaseFields, 1, n)
    ELSE BaseFields \o [i \in 1..(n - Len(BaseFields)) |-> <<"e", "f">>]

DeriveChallenges ==
    { Join(<<v, i1, s1, i2, s2>>, "$") :
        v \in VersionFields, i1 \in IterationFields, s1 \in SaltFields,
        i2 \in IterationFields, s2 \in SaltFields }
      \cup { Join(FieldsOfCount(n), "$") : n \in 1..MaxChallengeFields }

DeriveInit ==
    \E c \in DeriveChallenges, pw \in Passwords :
        LET first == Some(SessionInfo(INVALID_SESSION, ChallengeA, <<>>))
            fresh == Some(SessionInfo(INVALID_SESSION, c, <<>>))
        IN  /\ args = [username |-> Some("carol"), password |-> Some(pw),
                       command |-> "none", home |-> TRUE]
            /\ store = None
            /\ pc = "derive"
            /\ session_info = fresh
            /\ stored_sid = None
            /\ username = Some("carol")
            /\ password = Some(pw)
            /\ inflight = None
            /\ ains = <<>>
            /\ devices = <<>>
            /\ result = Some([kind |-> "Ok", value |-> "()"])
            /\ outcome = "running"
            /\ log = <<LogLine("debug", "Session info", first),
                       LogLine("info", "No cached SID available. Request new SID...", "-")>>
            /\ trace = <<GetSessionInfoRequest, GetSessionInfoRequest>>
            /\ latest = fresh
            /\ replies = <<"sentinel", "sentinel">>
            /\ loads = 1
            /\ saves = <<>>
            /\ pwRequests = 1
            /\ derives = 0

DeriveNext ==
    \/ DeriveAndSend
    \/ CredReturn

DeriveSpec == DeriveInit /\ [][DeriveNext]_vars

----------------------------------------------------------------------------
(* What the claims call a well-formed challenge                             *)

\* a decimal number above zero
IsPositiveNumber(field) ==
    /\ Len(field) > 0
    /\ \A i \in 1..Len(field) : IndexOf(field[i], Digits) >= 0
    /\ \E i \in 1..Len(field) : field[i] # "0"

\* hex text: an even number of hex digits
IsHexText(field) ==
    /\ Len(field) % 2 = 0
    /\ \A i \in 1..Len(field) : HexVal(field[i]) >= 0

\* not exactly 5 fields, an iteration field that is not a positive number, or
\* a salt that is not hex text
IsMalformed(challenge) ==
    LET fields == Split(challenge, "$")
    IN  \/ Len(fields) # 5
        \/ ~IsPositiveNumber(fields[2])
        \/ ~IsPositiveNumber(fields[4])
        \/ ~IsHexText(fields[3])
        \/ ~IsHexText(fields[5])

VersionOf(challenge) == Split(challenge, "$")[1]

\* the credentials exchange has not returned: session_info is still the
\* record whose challenge the credential step is given
BeforeCredReturn == Len(replies) = 2 /\ IsSome(session_info)

\* C14 as claimed: a challenge with fewer or more than 5 fields, with an
\* iteration field that is not a positive number, or with a salt that is not
\* hex, ends the run in a failure before any credentials are sent.
C14_MalformedChallengeRejected ==
    (BeforeCredReturn /\ pc # "derive"
        /\ IsMalformed(Unwrap(session_info).challenge)) =>
            /\ pc = "done"
            /\ outcome = PanicUnwrap
            /\ CredRequests = 0

\* C15 as claimed: a challenge whose version field is not "2" ends the run
\* in a failure: no credentials are sent for it.
C15_UnsupportedVersionRejected ==
    (BeforeCredReturn /\ pc # "derive"
        /\ VersionOf(Unwrap(session_info).challenge) # <<"2">>) =>
            /\ pc = "done"
            /\ outcome = PanicUnwrap
            /\ CredRequests = 0

SidRequests == { i \in 1..Len(trace) : trace[i].form = "sid" }

\* C19: a cached-token submission is sent if and only if get_stored_sid
\* yielded a token; it is the second request, sent after the probe was
\* answered with a session record, and its sid is the token yielded.
C19_CachedTokenSubmission ==
    /\ SidRequests # {} =>
           /\ SidRequests = {2}
           /\ loads = 1
           /\ IsSome(stored_sid)
           /\ trace[2].sid = Unwrap(stored_sid)
           /\ trace[1] = GetSessionInfoRequest
           /\ ProbeReply \in {"valid", "sentinel"}
    /\ (IsSome(stored_sid) /\ pc # "match") => SidRequests # {}

\* the token of the sid file is on its way
C19_Witness ==
    /\ pc = "sid_wait"
    /\ stored_sid = Some(ValidSid1)
    /\ inflight = Some(ConnectWithSidRequest(ValidSid1))

\* a call of the library that returned an error
ReturnedErr ==
    /\ pc' = "lib"
    /\ trace' # trace
    /\ result' = Some([kind |-> "Err"])

\* C20 as claimed: whenever update_session_info, connect_with_sid or
\* connect_with_credentials returns an error, session_info is exactly what
\* it was before the call.
C20_ErrorLeavesRecordUnchanged ==
    [][ReturnedErr => session_info' = session_info]_vars

\* C20: update_session_info and connect_with_sid that return an error leave
\* session_info as it was before the call; connect_with_credentials that
\* returns an error leaves it as it was when its own probe failed, and leaves
\* the whole record which its probe returned when the credentials exchange
\* failed after it.
C20_ErrorLeavesRecordOrProbe ==
    [][ReturnedErr =>
          \/ session_info' = session_info
          \/ /\ Len(trace') = Len(trace) + 2
             /\ trace'[Len(trace')].form = "credentials"
             /\ replies'[Len(replies') - 1] \in {"valid", "sentinel"}
             /\ replies'[Len(replies')] = "error"
             /\ session_info' = latest'
             /\ IsSome(session_info')]_vars

\* the first call was connect_with_credentials, its probe was answered and
\* its credentials exchange failed
C20_Witness ==
    /\ pc = "lib"
    /\ result = Some([kind |-> "Err"])
    /\ Len(trace) = 2
    /\ trace[2].form = "credentials"
    /\ replies[2] = "error"
    /\ IsSome(session_info)


----------------------------------------------------------------------------
(* The run under fairness: every awaited transport or store call returns    *)
(* and every step between two awaits is taken                               *)

\* the runs with HOME set, --username and --password given and a sid file,
\* which may turn out unreadable
FairInit ==
    /\ Init
    /\ args.home
    /\ IsSome(args.username)
    /\ IsSome(args.password)
    /\ store = Some(ValidSid1)

FairSpec == FairInit /\ [][Next]_vars /\ WF_vars(Next)

\* where the run is among the states of the authentication: 0 before the
\* probe returned, 1 probed, 2 the cached token is absent or rejected,
\* 3 the credential attempt, 4 connect_to_fritzbox is over
AuthRank ==
    CASE pc \in {"start", "probe_wait"} -> 0
      [] pc \in {"load", "match", "sid_wait"} -> 1
      [] pc = "resolve" -> 2
      [] pc \in {"password", "connect", "reprobe_wait", "derive", "cred_wait"} -> 3
      [] OTHER -> 4

\* the cached token or the credentials were answered with a valid sid, which
\* the instance holds
Authenticated ==
    /\ AuthRank = 4
    /\ is_connected(session_info)
    /\ (SidReply = "valid" \/ CredReply = "valid")

\* the run was ended by a failure
Failed == pc = "done" /\ outcome \notin {"running", "exit_ok"}

\* C21 as claimed: no step of the run leads back to an earlier state of the
\* authentication, and when every call returns the run reaches Authenticated
\* or Failed.
C21_ForwardToTerminal ==
    /\ [][AuthRank' >= AuthRank]_vars
    /\ <>(Authenticated \/ Failed)


----------------------------------------------------------------------------
(* The switch listing                                                       *)

\* the requests of the given form, in the order they were sent
RequestsOf(form) == SelectSeq(trace, LAMBDA r : r.form = form)

\* get_switches: text.split(","), read back from the devices pushed and the
\* AINs still to be asked for
SplitAins == [i \in 1..Len(devices) |-> devices[i].ain] \o ains

\* the AINs a list response lists: an empty text lists none
ListedAins == IF SplitAins = << <<>> >> THEN <<>> ELSE SplitAins

\* a request to the switch endpoint failed
SwitchRequestFailed ==
    \E i \in 1..Len(replies) :
        trace[i].path = SWITCH_COMMAND_PATH /\ replies[i] = "error"

\* C22 as claimed: one list request, then one name request per listed AIN,
\* in list order and with the sid of the list request; the listing returns
\* one Device per listed AIN in that order, none for an empty list; when a
\* request fails the listing fails and returns no devices.
C22_SwitchListing ==
    LET lists == RequestsOf("getswitchlist")
        names == RequestsOf("getswitchname")
    IN  /\ Len(lists) <= 1
        /\ Len(names) <= Len(ListedAins)
        /\ \A i \in 1..Len(names) :
               /\ Len(lists) = 1
               /\ names[i].sid = lists[1].sid
               /\ i <= Len(ListedAins) => names[i].ain = ListedAins[i]
        /\ (Len(lists) = 1 /\ pc = "done" /\ outcome = "exit_ok") =>
               /\ Len(names) = Len(ListedAins)
               /\ Len(devices) = Len(ListedAins)
               /\ \A i \in 1..Len(devices) : devices[i].ain = ListedAins[i]
        /\ SwitchRequestFailed => (pc = "done" /\ outcome = PanicUnwrap)

====
